---- MODULE Spec2Model ----
(***************************************************************************)
(* Model of the Data Breach Risk Detector backend: the three rule-based    *)
(* detectors, the risk scorer, the alert manager, the JSON-file store and  *)
(* the /scan handler that sequences them.                                  *)
(*                                                                         *)
(* Python values are modelled as follows: str -> TLA+ string, int ->       *)
(* integer, list -> sequence, dict -> record / function over its keys,     *)
(* None (and a key that .get() does not find) -> the value None.           *)
(* list(set(...)) has no specified order and is kept as a set.             *)
(***************************************************************************)
EXTENDS Integers, Sequences, FiniteSets, TLC

VARIABLES
    input,          \* argument(s) of the operation that ran last
    op,             \* name of the operation that ran last ("none" initially)
    ret,            \* value that operation returned
    alert_history,  \* AlertManager.alert_history of the live instance
    alerts_db,      \* the file alerts.json
    scans_db,       \* the file scans.json
    clock,          \* number of datetime.now() calls made so far
    requests        \* the /scan requests that run side by side: where each
                    \* one stands and its local variables (<<>> when the
                    \* operations run one at a time)

vars == <<input, op, ret, alert_history, alerts_db, scans_db, clock, requests>>

None == "<None>"

(***************************************************************************)
(* Bounds of the model                                                     *)
(***************************************************************************)
MaxIssues == 3      \* longest issue list handed to the scorer
MaxScore == 100     \* largest score handed to _get_risk_level directly
MaxAuthLogs == 4    \* longest auth log handed to the AuthDetector on its own
MaxCredLogs == 5    \* longest auth log handed to detect_default_credentials on its own
MaxApiLogs == 2     \* longest API log handed to detect_missing_auth on its own
MaxEndpointScans == 2 \* longest scan-result list handed to a detector on its own
MaxAlertIssues == 3 \* longest issue list handed to process_issues on its own
MaxScans == 2       \* /scan requests served
MaxNow == 4         \* datetime.now() calls one AlertManager instance may make
MaxStoredAlerts == 9 \* alerts in alerts.json beyond which save_alert is not called directly
MaxSummaryAlerts == 3 \* longest alert list handed to get_alert_summary on its own
MaxTypeCount == 2   \* largest count of one issue type in a risk_data handed to get_recommendations
MaxTimeLogs == 3    \* longest auth log handed to detect_suspicious_access_time on its own

(***************************************************************************)
(* Generic helpers for Python built-ins                                    *)
(***************************************************************************)
\* all lists over S of length at most n
SeqsUpTo(S, n) == UNION {[1..k -> S] : k \in 0..n}

\* dict.get(key, default)
Get(d, key, default) == IF key \in DOMAIN d THEN d[key] ELSE default

\* Python truthiness of a str-or-None value
Truthy(v) == v # None /\ v # ""

\* `sub in s` for strings
Contains(sub, s) ==
    \E i \in 1..(Len(s) - Len(sub) + 1) : SubSeq(s, i, i + Len(sub) - 1) = sub

UpperChars == "ABCDEFGHIJKLMNOPQRSTUVWXYZ"
LowerChars == "abcdefghijklmnopqrstuvwxyz"

LowerChar(c) ==
    IF \E i \in 1..26 : SubSeq(UpperChars, i, i) = c
    THEN LET i == CHOOSE i \in 1..26 : SubSeq(UpperChars, i, i) = c
         IN SubSeq(LowerChars, i, i)
    ELSE c

\* str.lower()
RECURSIVE Lower(_)
Lower(s) ==
    IF Len(s) = 0 THEN ""
    ELSE LowerChar(SubSeq(s, 1, 1)) \o Lower(SubSeq(s, 2, Len(s)))

\* keys of a dict filled by successive insertions of the elements of s:
\* each key once, in order of first insertion
RECURSIVE FirstSeen(_)
FirstSeen(s) ==
    IF s = <<>> THEN <<>>
    ELSE LET front == FirstSeen(SubSeq(s, 1, Len(s) - 1))
             last == s[Len(s)]
         IN IF \E i \in 1..Len(front) : front[i] = last
            THEN front ELSE Append(front, last)

\* list.count(x)
Count(s, x) == Cardinality({i \in 1..Len(s) : s[i] = x})

\* set(s)
Range(s) == {s[i] : i \in 1..Len(s)}

(***************************************************************************)
(* config/settings.py                                                      *)
(***************************************************************************)
RISK_THRESHOLDS == [LOW |-> 0, MEDIUM |-> 30, HIGH |-> 60, CRITICAL |-> 90]

RISK_WEIGHTS ==
    [public_api_exposed |-> 40, failed_login_attempts |-> 20,
     suspicious_access_time |-> 30, missing_authentication |-> 35,
     weak_password |-> 25, multiple_ips |-> 15]

DETECTION_CONFIG ==
    [max_failed_logins |-> 3, suspicious_hours |-> <<0, 1, 2, 3, 4, 5>>,
     rate_limit_threshold |-> 100]

(***************************************************************************)
(* risk_engine/risk_score.py : RiskScorer                                  *)
(***************************************************************************)
WeightIgnoringPublic(issue_type) ==
    CASE issue_type = "exposed_endpoint" -> RISK_WEIGHTS.public_api_exposed
      [] issue_type = "missing_authentication" -> RISK_WEIGHTS.missing_authentication
      [] issue_type = "brute_force_detected" -> RISK_WEIGHTS.failed_login_attempts
      [] issue_type = "suspicious_access_time" -> RISK_WEIGHTS.suspicious_access_time
      [] issue_type = "default_credentials" -> RISK_WEIGHTS.weak_password
      [] issue_type = "multiple_ip_access" -> RISK_WEIGHTS.multiple_ips
      [] OTHER -> 5

_get_weight(issue_type) ==
    CASE issue_type = "exposed_endpoint" -> RISK_WEIGHTS.public_api_exposed
      [] issue_type = "missing_authentication" -> RISK_WEIGHTS.missing_authentication
      [] issue_type = "brute_force_detected" -> RISK_WEIGHTS.failed_login_attempts
      [] issue_type = "suspicious_access_time" -> RISK_WEIGHTS.suspicious_access_time
      [] issue_type = "default_credentials" -> RISK_WEIGHTS.weak_password
      [] issue_type = "multiple_ip_access" -> RISK_WEIGHTS.multiple_ips
      [] issue_type = "public_endpoint" -> 10
      [] OTHER -> 5

RiskLevelStrictlyGreater(score) ==
    IF score > RISK_THRESHOLDS.CRITICAL THEN "CRITICAL"
    ELSE IF score > RISK_THRESHOLDS.HIGH THEN "HIGH"
    ELSE IF score > RISK_THRESHOLDS.MEDIUM THEN "MEDIUM"
    ELSE "LOW"

_get_risk_level(score) ==
    IF score >= RISK_THRESHOLDS.CRITICAL THEN "CRITICAL"
    ELSE IF score >= RISK_THRESHOLDS.HIGH THEN "HIGH"
    ELSE IF score >= RISK_THRESHOLDS.MEDIUM THEN "MEDIUM"
    ELSE "LOW"

\* [issue.get('type') for issue in all_issues]
IssueTypesOf(all_issues) ==
    [i \in 1..Len(all_issues) |-> Get(all_issues[i], "type", None)]

\* the first loop of calculate_score: issue_counts after the whole list
IssueCounts(all_issues) ==
    LET types == IssueTypesOf(all_issues)
    IN [t \in Range(types) |-> Count(types, t)]

\* the second loop of calculate_score: the running score after the first
\* n keys of issue_counts (dict order = order of first insertion)
RECURSIVE ScoreLoop(_, _, _)
ScoreLoop(keys, issue_counts, n) ==
    IF n = 0 THEN 0
    ELSE ScoreLoop(keys, issue_counts, n - 1)
         + _get_weight(keys[n]) * issue_counts[keys[n]]

calculate_score(all_issues) ==
    LET issue_counts == IssueCounts(all_issues)
        keys == FirstSeen(IssueTypesOf(all_issues))
        score == ScoreLoop(keys, issue_counts, Len(keys))
        breakdown == [t \in DOMAIN issue_counts |->
                        [count |-> issue_counts[t],
                         weight |-> _get_weight(t),
                         contribution |-> _get_weight(t) * issue_counts[t]]]
    IN [score |-> score,
        risk_level |-> _get_risk_level(score),
        breakdown |-> breakdown,
        total_issues |-> Len(all_issues),
        issue_counts |-> issue_counts]

\* get_recommendations if each of the two API issue types had an `if` of its own
RecommendationsPerType(risk_data) ==
    LET issue_counts == Get(risk_data, "issue_counts", <<>>)
        api == <<"Add authentication to all sensitive API endpoints",
                 "Implement API key validation">>
        recommendations ==
            (IF "brute_force_detected" \in DOMAIN issue_counts
             THEN <<"Implement account lockout after failed login attempts",
                    "Enable multi-factor authentication (MFA)">>
             ELSE <<>>)
            \o (IF "exposed_endpoint" \in DOMAIN issue_counts THEN api ELSE <<>>)
            \o (IF "missing_authentication" \in DOMAIN issue_counts THEN api ELSE <<>>)
            \o (IF "suspicious_access_time" \in DOMAIN issue_counts
                THEN <<"Set up alerts for off-hours access",
                       "Review access logs regularly">>
                ELSE <<>>)
            \o (IF "default_credentials" \in DOMAIN issue_counts
                THEN <<"Change all default usernames and passwords",
                       "Enforce strong password policies">>
                ELSE <<>>)
            \o (IF "multiple_ip_access" \in DOMAIN issue_counts
                THEN <<"Implement IP whitelisting for admin accounts",
                       "Monitor for unusual login patterns">>
                ELSE <<>>)
    IN IF recommendations = <<>>
       THEN <<"No critical issues detected - maintain current security posture">>
       ELSE recommendations

\* get_recommendations(risk_data); the strings are those of the source
\* without their leading pictograph
get_recommendations(risk_data) ==
    LET issue_counts == Get(risk_data, "issue_counts", <<>>)
        recommendations ==
            (IF "brute_force_detected" \in DOMAIN issue_counts
             THEN <<"Implement account lockout after failed login attempts",
                    "Enable multi-factor authentication (MFA)">>
             ELSE <<>>)
            \o (IF "exposed_endpoint" \in DOMAIN issue_counts
                   \/ "missing_authentication" \in DOMAIN issue_counts
                THEN <<"Add authentication to all sensitive API endpoints",
                       "Implement API key validation">>
                ELSE <<>>)
            \o (IF "suspicious_access_time" \in DOMAIN issue_counts
                THEN <<"Set up alerts for off-hours access",
                       "Review access logs regularly">>
                ELSE <<>>)
            \o (IF "default_credentials" \in DOMAIN issue_counts
                THEN <<"Change all default usernames and passwords",
                       "Enforce strong password policies">>
                ELSE <<>>)
            \o (IF "multiple_ip_access" \in DOMAIN issue_counts
                THEN <<"Implement IP whitelisting for admin accounts",
                       "Monitor for unusual login patterns">>
                ELSE <<>>)
    IN IF recommendations = <<>>
       THEN <<"No critical issues detected - maintain current security posture">>
       ELSE recommendations

(***************************************************************************)
(* datetime.fromisoformat(timestamp.replace('Z', '+00:00')).hour           *)
(*                                                                         *)
(* The accepted strings are YYYY-MM-DD, optionally followed by one         *)
(* separator character and HH, HH:MM or HH:MM:SS, optionally followed by   *)
(* an offset +HH:MM or -HH:MM.  Fractions of a second do not occur in the  *)
(* timestamps of this model.  A string that is not accepted raises         *)
(* ValueError, and None has no .replace and raises AttributeError.         *)
(***************************************************************************)
DigitChars == "0123456789"

IsDigit(c) == \E i \in 1..10 : SubSeq(DigitChars, i, i) = c

DigitValue(c) == (CHOOSE i \in 1..10 : SubSeq(DigitChars, i, i) = c) - 1

IsDigits(s) == \A i \in 1..Len(s) : IsDigit(SubSeq(s, i, i))

\* int(s) for a string of digits
RECURSIVE ToInt(_)
ToInt(s) ==
    IF Len(s) = 0 THEN 0
    ELSE 10 * ToInt(SubSeq(s, 1, Len(s) - 1)) + DigitValue(SubSeq(s, Len(s), Len(s)))

\* timestamp.replace('Z', '+00:00')
RECURSIVE ReplaceZ(_)
ReplaceZ(s) ==
    IF Len(s) = 0 THEN ""
    ELSE (IF SubSeq(s, 1, 1) = "Z" THEN "+00:00" ELSE SubSeq(s, 1, 1))
         \o ReplaceZ(SubSeq(s, 2, Len(s)))

IsLeapYear(y) == y % 4 = 0 /\ (y % 100 # 0 \/ y % 400 = 0)

DaysInMonth(y, m) ==
    IF m = 2 THEN (IF IsLeapYear(y) THEN 29 ELSE 28)
    ELSE IF m \in {4, 6, 9, 11} THEN 30 ELSE 31

\* the first 10 characters are a valid YYYY-MM-DD
ValidDate(s) ==
    /\ Len(s) >= 10
    /\ IsDigits(SubSeq(s, 1, 4)) /\ SubSeq(s, 5, 5) = "-"
    /\ IsDigits(SubSeq(s, 6, 7)) /\ SubSeq(s, 8, 8) = "-"
    /\ IsDigits(SubSeq(s, 9, 10))
    /\ ToInt(SubSeq(s, 1, 4)) >= 1
    /\ ToInt(SubSeq(s, 6, 7)) \in 1..12
    /\ ToInt(SubSeq(s, 9, 10)) \in
          1..DaysInMonth(ToInt(SubSeq(s, 1, 4)), ToInt(SubSeq(s, 6, 7)))

\* t is HH:MM with both in the range given
ValidHHMM(t, maxh) ==
    /\ Len(t) = 5
    /\ IsDigits(SubSeq(t, 1, 2)) /\ SubSeq(t, 3, 3) = ":"
    /\ IsDigits(SubSeq(t, 4, 5))
    /\ ToInt(SubSeq(t, 1, 2)) <= maxh /\ ToInt(SubSeq(t, 4, 5)) <= 59

\* t is HH, HH:MM or HH:MM:SS
ValidClock(t) ==
    \/ Len(t) = 2 /\ IsDigits(t) /\ ToInt(t) <= 23
    \/ ValidHHMM(t, 23)
    \/ /\ Len(t) = 8 /\ ValidHHMM(SubSeq(t, 1, 5), 23)
       /\ SubSeq(t, 6, 6) = ":" /\ IsDigits(SubSeq(t, 7, 8))
       /\ ToInt(SubSeq(t, 7, 8)) <= 59

\* t (what follows the separator) with its UTC offset, if any, cut off
ClockPart(t) ==
    IF Len(t) >= 6 /\ SubSeq(t, Len(t) - 5, Len(t) - 5) \in {"+", "-"}
    THEN SubSeq(t, 1, Len(t) - 6) ELSE t

ValidOffset(t) ==
    Len(t) >= 6 /\ SubSeq(t, Len(t) - 5, Len(t) - 5) \in {"+", "-"}
        => ValidHHMM(SubSeq(t, Len(t) - 4, Len(t)), 23)

\* -1 when the try block raises, else dt.hour
ParseHour(timestamp) ==
    IF timestamp = None THEN -1
    ELSE LET s == ReplaceZ(timestamp)
             t == SubSeq(s, 12, Len(s))
         IN IF ~ValidDate(s) THEN -1
            ELSE IF Len(s) = 10 THEN 0
            ELSE IF Len(s) = 11 THEN -1
            ELSE IF ValidOffset(t) /\ ValidClock(ClockPart(t))
                 THEN ToInt(SubSeq(t, 1, 2))
            ELSE -1

\* str(v) inside an f-string
Str(v) == IF v = None THEN "None" ELSE v

(***************************************************************************)
(* detectors/auth_detector.py : AuthDetector                               *)
(***************************************************************************)
\* the per-key lists of a defaultdict(list) filled from logs, for one key
LogsOfUser(logs, user) ==
    SelectSeq(logs, LAMBDA log : Get(log, "user", None) = user)

\* the keys of that dict, in insertion order
UsersOf(logs) ==
    FirstSeen([i \in 1..Len(logs) |-> Get(logs[i], "user", None)])

FailedLogins(auth_logs) ==
    SelectSeq(auth_logs, LAMBDA log : Get(log, "action", None) = "login_failed")

SuccessfulLogins(auth_logs) ==
    SelectSeq(auth_logs, LAMBDA log : Get(log, "action", None) = "login_success")

AtLeastMaxFailedLogins(attempts) ==
    Len(attempts) >= DETECTION_CONFIG.max_failed_logins

\* len(attempts) > self.max_failed_logins
ExceedsMaxFailedLogins(attempts) ==
    Len(attempts) > DETECTION_CONFIG.max_failed_logins

BruteForceIssue(user, attempts) ==
    [type |-> "brute_force_detected",
     user |-> user,
     failed_attempts |-> Len(attempts),
     ips |-> {Get(attempts[i], "ip", None) : i \in 1..Len(attempts)},
     severity |-> "CRITICAL",
     description |-> "User '" \o Str(user) \o "' had "
                     \o ToString(Len(attempts)) \o " failed login attempts"]

detect_brute_force(auth_logs) ==
    LET failed == FailedLogins(auth_logs)
        flagged == SelectSeq(UsersOf(failed),
                       LAMBDA user : ExceedsMaxFailedLogins(LogsOfUser(failed, user)))
    IN [i \in 1..Len(flagged) |->
            BruteForceIssue(flagged[i], LogsOfUser(failed, flagged[i]))]

\* hour in self.suspicious_hours
IsSuspiciousHour(hour) ==
    \E i \in 1..Len(DETECTION_CONFIG.suspicious_hours) :
        DETECTION_CONFIG.suspicious_hours[i] = hour

SuspiciousTimeIssue(log) ==
    [type |-> "suspicious_access_time",
     user |-> Get(log, "user", None),
     timestamp |-> Get(log, "timestamp", None),
     hour |-> ParseHour(Get(log, "timestamp", None)),
     ip |-> Get(log, "ip", None),
     severity |-> "WARNING",
     description |-> "User '" \o Str(Get(log, "user", None))
                     \o "' logged in at suspicious hour "
                     \o ToString(ParseHour(Get(log, "timestamp", None))) \o ":00"]

\* the loop of detect_suspicious_access_time if the first exception ended it
SuspiciousTimesUntilError(auth_logs) ==
    LET raises == {i \in 1..Len(auth_logs) :
                      /\ Get(auth_logs[i], "action", None) = "login_success"
                      /\ ParseHour(Get(auth_logs[i], "timestamp", None)) = -1}
        examined == IF raises = {} THEN auth_logs
                    ELSE SubSeq(auth_logs, 1,
                                (CHOOSE i \in raises : \A j \in raises : i <= j) - 1)
        hits == SelectSeq(SuccessfulLogins(examined),
                    LAMBDA log : IsSuspiciousHour(ParseHour(Get(log, "timestamp", None))))
    IN [i \in 1..Len(hits) |-> SuspiciousTimeIssue(hits[i])]

\* the try block raises for a record (ParseHour = -1) and the loop continues
detect_suspicious_access_time(auth_logs) ==
    LET hits == SelectSeq(SuccessfulLogins(auth_logs),
                    LAMBDA log : IsSuspiciousHour(ParseHour(Get(log, "timestamp", None))))
    IN [i \in 1..Len(hits) |-> SuspiciousTimeIssue(hits[i])]

IpsOfAllLogins(auth_logs, user) ==
    LET mine == LogsOfUser(auth_logs, user)
    IN {Get(mine[i], "ip", None) : i \in 1..Len(mine)}

\* user_ips[user] after the first loop of detect_multiple_ip_access
UserIps(auth_logs, user) ==
    LET mine == LogsOfUser(SuccessfulLogins(auth_logs), user)
    IN {Get(mine[i], "ip", None) : i \in 1..Len(mine)}

MultipleIpIssue(user, ips) ==
    [type |-> "multiple_ip_access",
     user |-> user,
     ip_count |-> Cardinality(ips),
     ips |-> ips,
     severity |-> "WARNING",
     description |-> "User '" \o Str(user) \o "' logged in from "
                     \o ToString(Cardinality(ips)) \o " different IPs"]

detect_multiple_ip_access(auth_logs) ==
    LET flagged == SelectSeq(UsersOf(SuccessfulLogins(auth_logs)),
                       LAMBDA user : Cardinality(UserIps(auth_logs, user)) > 1)
    IN [i \in 1..Len(flagged) |->
            MultipleIpIssue(flagged[i], UserIps(auth_logs, flagged[i]))]

\* AuthDetector.analyze
analyze_auth(auth_logs) ==
    LET all_issues == detect_brute_force(auth_logs)
                      \o detect_suspicious_access_time(auth_logs)
                      \o detect_multiple_ip_access(auth_logs)
    IN [detector |-> "authentication",
        total_issues |-> Len(all_issues),
        issues |-> all_issues]

(***************************************************************************)
(* collectors/api_collector.py : APICollector                              *)
(***************************************************************************)
endpoints_to_scan ==
    <<"/api/users", "/api/admin/settings", "/api/database/dump",
      "/api/health", "/api/data/export">>

\* _simulate_endpoint_check if only "admin" marked an endpoint as exposed
SimulateAdminOnly(endpoint) ==
    IF Contains("admin", endpoint)
    THEN [endpoint |-> endpoint, requires_auth |-> TRUE, auth_enforced |-> FALSE,
          public_access |-> TRUE, risk_level |-> "HIGH"]
    ELSE IF Contains("health", endpoint)
    THEN [endpoint |-> endpoint, requires_auth |-> FALSE, auth_enforced |-> FALSE,
          public_access |-> TRUE, risk_level |-> "LOW"]
    ELSE [endpoint |-> endpoint, requires_auth |-> TRUE, auth_enforced |-> TRUE,
          public_access |-> FALSE, risk_level |-> "LOW"]

_simulate_endpoint_check(endpoint) ==
    IF Contains("admin", endpoint) \/ Contains("database", endpoint)
       \/ Contains("dump", endpoint)
    THEN [endpoint |-> endpoint, requires_auth |-> TRUE, auth_enforced |-> FALSE,
          public_access |-> TRUE, risk_level |-> "HIGH"]
    ELSE IF Contains("health", endpoint)
    THEN [endpoint |-> endpoint, requires_auth |-> FALSE, auth_enforced |-> FALSE,
          public_access |-> TRUE, risk_level |-> "LOW"]
    ELSE [endpoint |-> endpoint, requires_auth |-> TRUE, auth_enforced |-> TRUE,
          public_access |-> FALSE, risk_level |-> "LOW"]

scan_endpoints ==
    [i \in 1..Len(endpoints_to_scan) |-> _simulate_endpoint_check(endpoints_to_scan[i])]

(***************************************************************************)
(* detectors/api_detector.py : APIDetector                                 *)
(***************************************************************************)
protected_endpoints == <<"/api/admin", "/api/database", "/api/users", "/api/data">>

IsProtectedPrefix(endpoint) ==
    \E i \in 1..Len(protected_endpoints) :
        Len(endpoint) >= Len(protected_endpoints[i])
        /\ SubSeq(endpoint, 1, Len(protected_endpoints[i])) = protected_endpoints[i]
        /\ (Len(endpoint) = Len(protected_endpoints[i])
            \/ SubSeq(endpoint, Len(protected_endpoints[i]) + 1,
                      Len(protected_endpoints[i]) + 1) = "/")

\* any(protected in endpoint for protected in self.protected_endpoints)
is_protected(endpoint) ==
    \E i \in 1..Len(protected_endpoints) : Contains(protected_endpoints[i], endpoint)

MissingAuthIssue(log) ==
    [type |-> "missing_authentication",
     endpoint |-> Get(log, "endpoint", ""),
     ip |-> Get(log, "ip", None),
     timestamp |-> Get(log, "timestamp", None),
     severity |-> "CRITICAL",
     description |-> "Protected endpoint '" \o Get(log, "endpoint", "")
                     \o "' accessed without authentication"]

detect_missing_auth(api_logs) ==
    LET hits == SelectSeq(api_logs, LAMBDA log :
                    is_protected(Get(log, "endpoint", ""))
                    /\ ~Truthy(Get(log, "auth_token", None)))
    IN [i \in 1..Len(hits) |-> MissingAuthIssue(hits[i])]

ExposedSeverityWithDump(endpoint) ==
    IF Contains("admin", endpoint) \/ Contains("database", endpoint)
       \/ Contains("dump", endpoint)
    THEN "CRITICAL" ELSE "WARNING"

\* "CRITICAL" if ("admin" in endpoint or "database" in endpoint) else "WARNING"
ExposedSeverity(endpoint) ==
    IF Contains("admin", endpoint) \/ Contains("database", endpoint)
    THEN "CRITICAL" ELSE "WARNING"

ExposedEndpointIssue(scan) ==
    [type |-> "exposed_endpoint",
     endpoint |-> Get(scan, "endpoint", ""),
     public_access |-> Get(scan, "public_access", None),
     severity |-> ExposedSeverity(Get(scan, "endpoint", "")),
     description |-> "Sensitive endpoint '" \o Get(scan, "endpoint", "")
                     \o "' is publicly accessible"]

detect_exposed_admin_endpoints(endpoint_scans) ==
    LET hits == SelectSeq(endpoint_scans, LAMBDA scan :
                    Get(scan, "requires_auth", FALSE)
                    /\ ~Get(scan, "auth_enforced", FALSE))
    IN [i \in 1..Len(hits) |-> ExposedEndpointIssue(hits[i])]

AnalyzeApiExposedFirst(api_logs, endpoint_scans) ==
    LET all_issues == detect_exposed_admin_endpoints(endpoint_scans)
                      \o detect_missing_auth(api_logs)
    IN [detector |-> "api_security",
        total_issues |-> Len(all_issues),
        issues |-> all_issues]

\* APIDetector.analyze
analyze_api(api_logs, endpoint_scans) ==
    LET all_issues == detect_missing_auth(api_logs)
                      \o detect_exposed_admin_endpoints(endpoint_scans)
    IN [detector |-> "api_security",
        total_issues |-> Len(all_issues),
        issues |-> all_issues]

(***************************************************************************)
(* detectors/misconfig_detector.py : MisconfigDetector                     *)
(***************************************************************************)
weak_usernames == <<"admin", "root", "administrator", "test", "guest">>

IsWeakUsername(user) ==
    \E i \in 1..Len(weak_usernames) : weak_usernames[i] = user

NeverDetected(user, detected_users) == TRUE

\* user not in detected_users
NotYetDetected(user, detected_users) == user \notin detected_users

DefaultCredentialsIssue(log) ==
    [type |-> "default_credentials",
     user |-> Get(log, "user", None),
     severity |-> "WARNING",
     description |-> "Default/common username '" \o Str(Get(log, "user", None))
                     \o "' is in use"]

\* (issues, detected_users) after the first n records of the loop of
\* detect_default_credentials
RECURSIVE DefaultCredentialsLoop(_, _)
DefaultCredentialsLoop(auth_logs, n) ==
    IF n = 0 THEN [issues |-> <<>>, detected_users |-> {}]
    ELSE LET before == DefaultCredentialsLoop(auth_logs, n - 1)
             user == Lower(Get(auth_logs[n], "user", ""))
         IN IF IsWeakUsername(user) /\ NotYetDetected(user, before.detected_users)
            THEN [issues |-> Append(before.issues, DefaultCredentialsIssue(auth_logs[n])),
                  detected_users |-> before.detected_users \cup {user}]
            ELSE before

detect_default_credentials(auth_logs) ==
    DefaultCredentialsLoop(auth_logs, Len(auth_logs)).issues

PublicEndpointIssue(scan) ==
    [type |-> "public_endpoint",
     endpoint |-> Get(scan, "endpoint", None),
     risk_level |-> Get(scan, "risk_level", None),
     severity |-> "INFO",
     description |-> "Endpoint '" \o Str(Get(scan, "endpoint", None))
                     \o "' is publicly accessible"]

PublicEndpointsOfAnyRisk(endpoint_scans) ==
    LET hits == SelectSeq(endpoint_scans, LAMBDA scan :
                    Get(scan, "public_access", FALSE) = TRUE)
    IN [i \in 1..Len(hits) |-> PublicEndpointIssue(hits[i])]

detect_public_endpoints(endpoint_scans) ==
    LET hits == SelectSeq(endpoint_scans, LAMBDA scan :
                    Get(scan, "public_access", FALSE) = TRUE
                    /\ Get(scan, "risk_level", None) # "LOW")
    IN [i \in 1..Len(hits) |-> PublicEndpointIssue(hits[i])]

\* MisconfigDetector.analyze
analyze_misconfig(auth_logs, endpoint_scans) ==
    LET all_issues == detect_default_credentials(auth_logs)
                      \o detect_public_endpoints(endpoint_scans)
    IN [detector |-> "misconfiguration",
        total_issues |-> Len(all_issues),
        issues |-> all_issues]

(***************************************************************************)
(* database/db.py : the two JSON files                                     *)
(***************************************************************************)
\* a JSON file that does not exist
NoFile == [exists |-> FALSE, content |-> <<>>]

\* init_db if it wrote [] to the file whether or not it existed
InitDbTruncating(db_file) == [exists |-> TRUE, content |-> <<>>]

\* what init_db leaves of one file: [] if it did not exist, else its content
init_db(db_file) ==
    IF ~db_file.exists THEN [exists |-> TRUE, content |-> <<>>] ELSE db_file

\* save_alert if it wrote the new alert alone
SaveAlertAlone(db_file, alert) == [exists |-> TRUE, content |-> <<alert>>]

\* alerts.json after save_alert(alert): init_db, read, append, write
save_alert(db_file, alert) ==
    [exists |-> TRUE, content |-> Append(init_db(db_file).content, alert)]

\* get_all_alerts(): its return value, given alerts.json
get_all_alerts(db_file) == init_db(db_file).content

\* alerts.json after save_alert was called for alerts[1..n] in turn
RECURSIVE SaveAlerts(_, _, _)
SaveAlerts(db_file, alerts, n) ==
    IF n = 0 THEN db_file
    ELSE save_alert(SaveAlerts(db_file, alerts, n - 1), alerts[n])

(***************************************************************************)
(* alerts/alert_manager.py : AlertManager                                  *)
(***************************************************************************)
\* datetime.now().isoformat() at the n-th reading of the clock
Now(n) == "now+" \o ToString(n)

\* create_alert(issue) with self.alert_history = history
create_alert(history, issue, now) ==
    [id |-> Len(history) + 1,
     timestamp |-> Now(now),
     severity |-> Get(issue, "severity", "INFO"),
     type |-> Get(issue, "type", None),
     description |-> Get(issue, "description", None),
     details |-> issue]

\* the local list `alerts` of process_issues after n iterations of its loop;
\* self.alert_history stays `history` until the loop is over
RECURSIVE ProcessLoop(_, _, _, _)
ProcessLoop(history, all_issues, n, now) ==
    IF n = 0 THEN <<>>
    ELSE Append(ProcessLoop(history, all_issues, n - 1, now),
                create_alert(history, all_issues[n], now + n - 1))

\* process_issues(all_issues): its return value
process_issues(history, all_issues, now) ==
    ProcessLoop(history, all_issues, Len(all_issues), now)

\* the dict `summary` of get_alert_summary after the first n alerts
RECURSIVE SummaryLoop(_, _)
SummaryLoop(alerts, n) ==
    IF n = 0
    THEN [CRITICAL |-> 0, WARNING |-> 0, INFO |-> 0, total |-> Len(alerts)]
    ELSE LET summary == SummaryLoop(alerts, n - 1)
             severity == Get(alerts[n], "severity", "INFO")
         IN IF severity \in DOMAIN summary
            THEN [summary EXCEPT ![severity] = @ + 1]
            ELSE summary

get_alert_summary(alerts) == SummaryLoop(alerts, Len(alerts))

(***************************************************************************)
(* collectors/log_collector.py : LogCollector                              *)
(***************************************************************************)
\* collect_auth_logs / collect_api_logs: the parsed file, [] when the file
\* is missing or is not JSON
collect_logs(readable, log_file) == IF readable THEN log_file ELSE <<>>

(***************************************************************************)
(* routes/dashboard_routes.py : run_scan                                   *)
(***************************************************************************)
\* all_issues of run_scan
AllIssues(auth_results, api_results, misconfig_results) ==
    auth_results.issues \o api_results.issues \o misconfig_results.issues

\* scan_results of run_scan as handed to save_scan_result
BuildScanResults(auth_results, api_results, misconfig_results, alerts) ==
    LET all_issues == AllIssues(auth_results, api_results, misconfig_results)
        risk_data == calculate_score(all_issues)
    IN [scan_completed |-> TRUE,
        risk_score |-> risk_data.score,
        risk_level |-> risk_data.risk_level,
        total_issues |-> Len(all_issues),
        issues_by_detector |->
            [authentication |-> auth_results.total_issues,
             api_security |-> api_results.total_issues,
             misconfiguration |-> misconfig_results.total_issues],
        all_issues |-> all_issues,
        alert_summary |-> get_alert_summary(alerts),
        recommendations |-> get_recommendations(risk_data),
        risk_breakdown |-> risk_data.breakdown]

\* scan_data after save_scan_result has stamped it
Stamped(scan_data, now) ==
    [k \in DOMAIN scan_data \cup {"timestamp"} |->
        IF k = "timestamp" THEN Now(now) ELSE scan_data[k]]

\* scans.json after save_scan_result(scan_data)
save_scan_result(db_file, scan_data, now) ==
    [exists |-> TRUE,
     content |-> Append(init_db(db_file).content, Stamped(scan_data, now))]

\* get_latest_scan() if it returned scans[0]
OldestScan(db_file) ==
    LET scans == init_db(db_file).content
    IN IF scans = <<>> THEN None ELSE scans[1]

\* get_latest_scan(): its return value, given scans.json
get_latest_scan(db_file) ==
    LET scans == init_db(db_file).content
    IN IF scans = <<>> THEN None ELSE scans[Len(scans)]

\* get_risk_score(): GET /risk, given scans.json; a saved scan is a dict
\* with a timestamp and so never falsy
get_risk_score(db_file) ==
    IF init_db(db_file).content = <<>>
    THEN [risk_score |-> 0,
          risk_level |-> "UNKNOWN",
          message |-> "No scans performed yet. Run /scan first."]
    ELSE LET latest_scan == get_latest_scan(db_file)
         IN [risk_score |-> Get(latest_scan, "risk_score", None),
             risk_level |-> Get(latest_scan, "risk_level", None),
             total_issues |-> Get(latest_scan, "total_issues", None),
             last_scan |-> Get(latest_scan, "timestamp", None)]

(***************************************************************************)
(* Frame shared by the specifications of the single components: a          *)
(* component that is called on its own touches neither the alert manager   *)
(* nor the store.                                                          *)
(***************************************************************************)
StoreUntouched ==
    /\ alert_history = <<>> /\ alerts_db = NoFile /\ scans_db = NoFile /\ clock = 0
    /\ requests = <<>>

Call(name, value) ==
    /\ op = "none"
    /\ op' = name
    /\ ret' = value
    /\ UNCHANGED <<input, alert_history, alerts_db, scans_db, clock, requests>>

(***************************************************************************)
(* SpecScorer: RiskScorer.calculate_score on every issue list of at most   *)
(* MaxIssues issues.  The scorer reads only issue['type']; the lists hold  *)
(* every type a detector emits, one type no weight is mapped for and one   *)
(* issue without a type.                                                   *)
(***************************************************************************)
KnownIssueTypes ==
    {"exposed_endpoint", "missing_authentication", "brute_force_detected",
     "suspicious_access_time", "default_credentials", "multiple_ip_access",
     "public_endpoint"}

ScorerIssues ==
    {[type |-> t] : t \in KnownIssueTypes \cup {"rate_limit_exceeded"}}
    \cup {[severity |-> "INFO"]}

InitScorer ==
    /\ input \in SeqsUpTo(ScorerIssues, MaxIssues)
    /\ op = "none" /\ ret = None /\ StoreUntouched

CalculateScore == Call("calculate_score", calculate_score(input))

NextScorer == CalculateScore

SpecScorer == InitScorer /\ [][NextScorer]_vars

\* number of issues of the argument whose type is t
TypeCount(t) ==
    Cardinality({i \in 1..Len(input) : Get(input[i], "type", None) = t})

\* C1: calculate_score returns score = sum over the types present of
\* weight x count with the weights 40/35/20/30/25/15/10 and 5 for any other
\* type; issue_counts holds the per-type tallies and total_issues the length
\* of the list.
C1_ScoreIsWeightedSum ==
    op = "calculate_score" =>
        /\ ret.score =
              40 * TypeCount("exposed_endpoint")
            + 35 * TypeCount("missing_authentication")
            + 20 * TypeCount("brute_force_detected")
            + 30 * TypeCount("suspicious_access_time")
            + 25 * TypeCount("default_credentials")
            + 15 * TypeCount("multiple_ip_access")
            + 10 * TypeCount("public_endpoint")
            + 5 * Cardinality({i \in 1..Len(input) :
                      Get(input[i], "type", None) \notin KnownIssueTypes})
        /\ DOMAIN ret.issue_counts =
              {Get(input[i], "type", None) : i \in 1..Len(input)}
        /\ \A t \in DOMAIN ret.issue_counts : ret.issue_counts[t] = TypeCount(t)
        /\ ret.total_issues = Len(input)

\* a scored list with a repeated mapped type, the low-weight mapped type and
\* an unmapped type: 35 + 35 + 10 or 40 + 10 + 5
C1_Witness ==
    /\ op = "calculate_score"
    /\ Len(input) = 3
    /\ TypeCount("public_endpoint") = 1
    /\ \/ TypeCount("missing_authentication") = 2 /\ ret.score = 80
       \/ TypeCount("rate_limit_exceeded") = 1 /\ TypeCount("exposed_endpoint") = 1
          /\ ret.score = 55

(***************************************************************************)
(* SpecLevel: RiskScorer._get_risk_level on every score 0..MaxScore.       *)
(***************************************************************************)
InitLevel ==
    /\ input \in 0..MaxScore
    /\ op = "none" /\ ret = None /\ StoreUntouched

GetRiskLevel == Call("_get_risk_level", _get_risk_level(input))

NextLevel == GetRiskLevel

SpecLevel == InitLevel /\ [][NextLevel]_vars

LevelRank(level) ==
    CASE level = "LOW" -> 0 [] level = "MEDIUM" -> 1
      [] level = "HIGH" -> 2 [] level = "CRITICAL" -> 3

\* C2: the risk level is CRITICAL iff score >= 90, HIGH iff 60 <= score < 90,
\* MEDIUM iff 30 <= score < 60, LOW iff score < 30; it never decreases when
\* the score grows; 0,29,30,59,60,89,90 give LOW,LOW,MEDIUM,MEDIUM,HIGH,HIGH,
\* CRITICAL.
C2_LevelThresholds ==
    op = "_get_risk_level" =>
        /\ ret = "CRITICAL" <=> input >= 90
        /\ ret = "HIGH" <=> (60 <= input /\ input < 90)
        /\ ret = "MEDIUM" <=> (30 <= input /\ input < 60)
        /\ ret = "LOW" <=> input < 30
        /\ \A s \in 0..input : LevelRank(_get_risk_level(s)) <= LevelRank(ret)
        /\ input \in {0, 29} => ret = "LOW"
        /\ input \in {30, 59} => ret = "MEDIUM"
        /\ input \in {60, 89} => ret = "HIGH"
        /\ input = 90 => ret = "CRITICAL"

\* the boundary score 90 has been classified
C2_Witness == op = "_get_risk_level" /\ input = 90 /\ ret = "CRITICAL"

(***************************************************************************)
(* SpecAlerts: one AlertManager instance, on which process_issues and      *)
(* create_alert are called any number of times while fewer than MaxNow     *)
(* alerts have been created.  Every alert created by process_issues is     *)
(* saved to alerts.json.                                                   *)
(***************************************************************************)
AlertIssues ==
    {[type |-> "missing_authentication", severity |-> "CRITICAL",
      description |-> "Protected endpoint '/api/users' accessed without authentication",
      endpoint |-> "/api/users"],
     [type |-> "public_endpoint",
      description |-> "Endpoint '/api/health' is publicly accessible"]}

InitAlerts ==
    /\ input = None /\ op = "none" /\ ret = None
    /\ alert_history = <<>> /\ alerts_db = NoFile /\ scans_db = NoFile /\ clock = 0
    /\ requests = <<>>

ProcessIssues ==
    \E all_issues \in SeqsUpTo(AlertIssues, MaxAlertIssues) :
        LET alerts == process_issues(alert_history, all_issues, clock)
        IN /\ clock + Len(all_issues) <= MaxNow
           /\ input' = all_issues
           /\ op' = "process_issues"
           /\ ret' = alerts
           /\ alert_history' = alert_history \o alerts
           /\ alerts_db' = SaveAlerts(alerts_db, alerts, Len(alerts))
           /\ scans_db' = IF alerts = <<>> THEN scans_db ELSE init_db(scans_db)
           /\ clock' = clock + Len(all_issues)
           /\ UNCHANGED requests

CreateAlert ==
    \E issue \in AlertIssues :
        /\ clock + 1 <= MaxNow
        /\ input' = issue
        /\ op' = "create_alert"
        /\ ret' = create_alert(alert_history, issue, clock)
        /\ clock' = clock + 1
        /\ UNCHANGED <<alert_history, alerts_db, scans_db, requests>>

NextAlerts == ProcessIssues \/ CreateAlert

SpecAlerts == InitAlerts /\ [][NextAlerts]_vars

\* C3: within one AlertManager instance the alerts returned by
\* process_issues carry the ids that continue the sequence 1,2,3,... (the
\* k-th alert of a call follows the alerts of all earlier calls), so no two
\* alerts of the instance share an id.
C3_IdsSequential ==
    /\ op = "process_issues" =>
          \A k \in 1..Len(ret) :
              ret[k].id = Len(alert_history) - Len(ret) + k
    /\ \A i, j \in 1..Len(alert_history) :
          i # j => alert_history[i].id # alert_history[j].id

(***************************************************************************)
(* SpecAuth: the three AuthDetector rules and analyze on every auth log of *)
(* at most MaxAuthLogs records of two users, two actions and two IPs.      *)
(***************************************************************************)
AuthUsers == {"eve", "bob"}

AuthIps == {"10.0.0.1", "10.0.0.2"}

AuthRecords ==
    [user : AuthUsers, action : {"login_failed", "login_success"},
     ip : AuthIps, timestamp : {"2024-01-15T02:30:00Z"}]

InitAuth ==
    /\ input \in SeqsUpTo(AuthRecords, MaxAuthLogs)
    /\ op = "none" /\ ret = None /\ StoreUntouched

DetectBruteForce == Call("detect_brute_force", detect_brute_force(input))

DetectSuspiciousAccessTime ==
    Call("detect_suspicious_access_time", detect_suspicious_access_time(input))

DetectMultipleIpAccess ==
    Call("detect_multiple_ip_access", detect_multiple_ip_access(input))

AnalyzeAuth == Call("analyze", analyze_auth(input))

NextAuth ==
    \/ DetectBruteForce
    \/ DetectSuspiciousAccessTime
    \/ DetectMultipleIpAccess
    \/ AnalyzeAuth

SpecAuth == InitAuth /\ [][NextAuth]_vars

\* positions of the argument log that hold a record of this user and action
RecordsOf(user, action) ==
    {i \in 1..Len(input) : input[i].user = user /\ input[i].action = action}

\* positions of the returned issue list that hold an issue about this user
IssuesAbout(user) == {k \in 1..Len(ret) : ret[k].user = user}

\* C5: detect_brute_force emits exactly one CRITICAL brute_force_detected
\* issue for each user with strictly more than 3 login_failed records and
\* none for any other user; failed_attempts is that user's number of
\* login_failed records and ips the distinct IPs of those records;
\* login_success records never count.
C5_BruteForce ==
    op = "detect_brute_force" =>
        /\ \A user \in AuthUsers :
              Cardinality(IssuesAbout(user)) =
                  IF Cardinality(RecordsOf(user, "login_failed")) > 3 THEN 1 ELSE 0
        /\ \A k \in 1..Len(ret) :
              /\ ret[k].type = "brute_force_detected"
              /\ ret[k].severity = "CRITICAL"
              /\ ret[k].user \in AuthUsers
              /\ ret[k].failed_attempts =
                    Cardinality(RecordsOf(ret[k].user, "login_failed"))
              /\ ret[k].ips =
                    {input[i].ip : i \in RecordsOf(ret[k].user, "login_failed")}
        /\ \A user \in AuthUsers :
              Cardinality(RecordsOf(user, "login_failed")) = 3
                  => IssuesAbout(user) = {}
        /\ \A user \in AuthUsers :
              Cardinality(RecordsOf(user, "login_failed")) = 4
                  => \E k \in 1..Len(ret) :
                        ret[k].user = user /\ ret[k].failed_attempts = 4

\* four failed logins of one user from two IPs have given one issue
C5_Witness ==
    /\ op = "detect_brute_force"
    /\ Cardinality(RecordsOf("eve", "login_failed")) = 4
    /\ Len(ret) = 1
    /\ ret[1].failed_attempts = 4
    /\ ret[1].ips = AuthIps

\* C6: detect_multiple_ip_access emits exactly one WARNING
\* multiple_ip_access issue per user whose login_success records come from
\* more than one distinct IP, with ip_count the number of those IPs, and
\* none for a user whose successful logins come from a single IP; IPs seen
\* only in login_failed records are not counted.
C6_MultipleIp ==
    op = "detect_multiple_ip_access" =>
        /\ \A user \in AuthUsers :
              Cardinality(IssuesAbout(user)) =
                  IF Cardinality({input[i].ip :
                         i \in RecordsOf(user, "login_success")}) > 1
                  THEN 1 ELSE 0
        /\ \A k \in 1..Len(ret) :
              /\ ret[k].type = "multiple_ip_access"
              /\ ret[k].severity = "WARNING"
              /\ ret[k].user \in AuthUsers
              /\ ret[k].ips =
                    {input[i].ip : i \in RecordsOf(ret[k].user, "login_success")}
              /\ ret[k].ip_count = Cardinality(ret[k].ips)

\* a user with successful logins from two IPs has been reported with
\* ip_count 2, and a user who failed from one IP and succeeded from the
\* other has not
C6_Witness ==
    /\ op = "detect_multiple_ip_access"
    /\ Len(ret) = 1
    /\ ret[1].user = "eve" /\ ret[1].ip_count = 2
    /\ RecordsOf("bob", "login_failed") # {}
    /\ RecordsOf("bob", "login_success") # {}
    /\ {input[i].ip : i \in RecordsOf("bob", "login_failed")}
           # {input[i].ip : i \in RecordsOf("bob", "login_success")}

(***************************************************************************)
(* SpecCreds: detect_default_credentials on every auth log of at most      *)
(* MaxCredLogs records whose users are two spellings of one weak name, a   *)
(* second weak name and a name that is not weak.                           *)
(***************************************************************************)
CredUsers == {"admin", "Admin", "root", "eve"}

CredRecords ==
    [user : CredUsers, action : {"login_failed"},
     ip : {"10.0.0.1"}, timestamp : {"2024-01-15T14:30:00Z"}]
    \cup [user : {"admin", "eve"}, action : {"login_success"},
          ip : {"10.0.0.1"}, timestamp : {"2024-01-15T14:30:00Z"}]

InitCreds ==
    /\ input \in SeqsUpTo(CredRecords, MaxCredLogs)
    /\ op = "none" /\ ret = None /\ StoreUntouched

DetectDefaultCredentials ==
    Call("detect_default_credentials", detect_default_credentials(input))

NextCreds == DetectDefaultCredentials

SpecCreds == InitCreds /\ [][NextCreds]_vars

\* the weak username a spelling stands for, "" for a name that is not weak
WeakNameOf(user) ==
    CASE user \in {"admin", "Admin"} -> "admin"
      [] user = "root" -> "root"
      [] OTHER -> ""

\* position of the first record of the argument log that uses weak name w
FirstUse(w) ==
    CHOOSE i \in 1..Len(input) :
        /\ WeakNameOf(input[i].user) = w
        /\ \A j \in 1..(i - 1) : WeakNameOf(input[j].user) # w

\* C7: detect_default_credentials emits at most one WARNING
\* default_credentials issue per distinct weak username, compared
\* case-insensitively, whatever the number of records or their action; the
\* issue carries the casing of the first matching record and issues appear
\* in order of first occurrence; 5 records with user admin yield 1 issue.
C7_DefaultCredentials ==
    op = "detect_default_credentials" =>
        /\ \A k \in 1..Len(ret) :
              /\ ret[k].type = "default_credentials"
              /\ ret[k].severity = "WARNING"
              /\ WeakNameOf(ret[k].user) # ""
        /\ \A w \in {"admin", "root"} :
              Cardinality({k \in 1..Len(ret) : WeakNameOf(ret[k].user) = w}) <= 1
        /\ \A w \in {"admin", "root"} :
              (\E i \in 1..Len(input) : WeakNameOf(input[i].user) = w)
                  => \E k \in 1..Len(ret) : ret[k].user = input[FirstUse(w)].user
        /\ \A k, l \in 1..Len(ret) :
              k < l => FirstUse(WeakNameOf(ret[k].user)) < FirstUse(WeakNameOf(ret[l].user))
        /\ (Len(input) = 5 /\ \A i \in 1..5 : input[i].user = "admin")
              => Len(ret) = 1

\* five records of user admin have given one issue
C7_Witness ==
    /\ op = "detect_default_credentials"
    /\ Len(input) = 5
    /\ \A i \in 1..5 : input[i].user = "admin"
    /\ Len(ret) = 1 /\ ret[1].user = "admin"

(***************************************************************************)
(* SpecApiLogs: detect_missing_auth on every API log of at most MaxApiLogs *)
(* records.                                                                *)
(***************************************************************************)
ApiLogEndpoints ==
    {"/api/admin/settings", "/api/dataexport", "/v2/api/users", "/api/health",
     "/api/user", ""}

ApiLogRecords ==
    [endpoint : ApiLogEndpoints, auth_token : {None, "", "tok-1"},
     ip : {"10.0.0.9"}, timestamp : {"2024-01-15T14:30:00Z"}]

InitApiLogs ==
    /\ input \in SeqsUpTo(ApiLogRecords, MaxApiLogs)
    /\ op = "none" /\ ret = None /\ StoreUntouched

DetectMissingAuth == Call("detect_missing_auth", detect_missing_auth(input))

NextApiLogs == DetectMissingAuth

SpecApiLogs == InitApiLogs /\ [][NextApiLogs]_vars

\* positions of the argument log for which the claim expects an issue
Unauthenticated ==
    {i \in 1..Len(input) :
        /\ input[i].endpoint \in {"/api/admin/settings", "/api/dataexport", "/v2/api/users"}
        /\ input[i].auth_token \in {None, ""}}

\* C9: detect_missing_auth emits exactly one CRITICAL
\* missing_authentication issue, in input order, for every record whose
\* endpoint contains /api/admin, /api/database, /api/users or /api/data as a
\* substring (so /api/dataexport matches) and whose auth_token is absent or
\* empty, and none for a record with a non-empty token or an unprotected
\* endpoint.
C9_MissingAuth ==
    op = "detect_missing_auth" =>
        /\ Len(ret) = Cardinality(Unauthenticated)
        /\ \A k \in 1..Len(ret) :
              /\ ret[k].type = "missing_authentication"
              /\ ret[k].severity = "CRITICAL"
              /\ \E i \in Unauthenticated :
                    /\ Cardinality({j \in Unauthenticated : j <= i}) = k
                    /\ ret[k].endpoint = input[i].endpoint
                    /\ ret[k].ip = input[i].ip

\* /api/dataexport without a token has been reported, and a record with a
\* token has not
C9_Witness ==
    /\ op = "detect_missing_auth"
    /\ Len(input) = 2
    /\ input[1].endpoint = "/api/admin/settings" /\ input[1].auth_token = "tok-1"
    /\ input[2].endpoint = "/api/dataexport" /\ input[2].auth_token = None
    /\ Len(ret) = 1 /\ ret[1].endpoint = "/api/dataexport"

(***************************************************************************)
(* SpecEndpoints: the two detectors that read endpoint scan results, on    *)
(* every list of at most MaxEndpointScans results: the results the         *)
(* collector simulates, and results with every combination of              *)
(* requires_auth and auth_enforced.                                        *)
(***************************************************************************)
ScannedEndpoints ==
    {"/api/admin/settings", "/api/database/dump", "/api/dump", "/api/health",
     "/api/users"}

ScanResults ==
    {_simulate_endpoint_check(e) : e \in ScannedEndpoints}
    \cup [endpoint : {"/api/admin/settings", "/api/dump"},
          requires_auth : BOOLEAN, auth_enforced : BOOLEAN,
          public_access : {TRUE}, risk_level : {"HIGH"}]

InitEndpoints ==
    /\ input \in SeqsUpTo(ScanResults, MaxEndpointScans)
    /\ op = "none" /\ ret = None /\ StoreUntouched

DetectExposedAdminEndpoints ==
    Call("detect_exposed_admin_endpoints", detect_exposed_admin_endpoints(input))

DetectPublicEndpoints ==
    Call("detect_public_endpoints", detect_public_endpoints(input))

NextEndpoints == DetectExposedAdminEndpoints \/ DetectPublicEndpoints

SpecEndpoints == InitEndpoints /\ [][NextEndpoints]_vars

\* positions of the argument list that should be protected and are not
Exposed ==
    {i \in 1..Len(input) : input[i].requires_auth /\ ~input[i].auth_enforced}

\* C10: detect_exposed_admin_endpoints emits one exposed_endpoint issue for
\* exactly the scan results with requires_auth true and auth_enforced
\* false; the severity is CRITICAL iff the endpoint contains "admin" or
\* "database", else WARNING (an exposed endpoint matching only "dump" is
\* WARNING).
C10_ExposedEndpoints ==
    op = "detect_exposed_admin_endpoints" =>
        /\ Len(ret) = Cardinality(Exposed)
        /\ \A k \in 1..Len(ret) :
              /\ ret[k].type = "exposed_endpoint"
              /\ \E i \in Exposed :
                    /\ Cardinality({j \in Exposed : j <= i}) = k
                    /\ ret[k].endpoint = input[i].endpoint
              /\ ret[k].severity =
                    IF ret[k].endpoint \in {"/api/admin/settings", "/api/database/dump"}
                    THEN "CRITICAL" ELSE "WARNING"

\* the simulated result for /api/dump, exposed, has been reported as WARNING
\* and an exposed admin endpoint as CRITICAL
C10_Witness ==
    /\ op = "detect_exposed_admin_endpoints"
    /\ Len(input) = 2
    /\ input[1] = _simulate_endpoint_check("/api/dump")
    /\ input[2].endpoint = "/api/admin/settings"
    /\ Len(ret) = 2
    /\ ret[1].severity = "WARNING" /\ ret[2].severity = "CRITICAL"

(***************************************************************************)
(* Spec: the server.  The store starts absent; init_db runs at start-up    *)
(* (and may run again); each /scan request reads the two log files, whose  *)
(* content at that moment is one of AuthLogFiles x ApiLogFiles and which   *)
(* may be unreadable, and runs run_scan to its end.  At most MaxScans      *)
(* scans are served.                                                       *)
(***************************************************************************)
\* the auth log of the end-to-end scenario of the specification
ScenarioAuthLogs ==
    <<[user |-> "eve", action |-> "login_failed", ip |-> "10.0.0.1",
       timestamp |-> "2024-01-15T10:00:01Z"],
      [user |-> "eve", action |-> "login_failed", ip |-> "10.0.0.1",
       timestamp |-> "2024-01-15T10:00:02Z"],
      [user |-> "eve", action |-> "login_failed", ip |-> "10.0.0.1",
       timestamp |-> "2024-01-15T10:00:03Z"],
      [user |-> "eve", action |-> "login_failed", ip |-> "10.0.0.1",
       timestamp |-> "2024-01-15T10:00:04Z"],
      [user |-> "eve", action |-> "login_success", ip |-> "10.0.0.2",
       timestamp |-> "2024-01-15T02:30:00Z"]>>

\* an auth log that triggers every rule that reads the auth log
BusyAuthLogs ==
    <<[user |-> "Admin", action |-> "login_failed", ip |-> "10.0.0.1",
       timestamp |-> "2024-01-16T01:00:00Z"],
      [user |-> "Admin", action |-> "login_failed", ip |-> "10.0.0.3",
       timestamp |-> "2024-01-16T01:00:05Z"],
      [user |-> "Admin", action |-> "login_failed", ip |-> "10.0.0.1",
       timestamp |-> "2024-01-16T01:00:09Z"],
      [user |-> "Admin", action |-> "login_failed", ip |-> "10.0.0.1",
       timestamp |-> "2024-01-16T01:00:12Z"],
      [user |-> "Admin", action |-> "login_success", ip |-> "10.0.0.1",
       timestamp |-> "2024-01-16T03:15:00Z"],
      [user |-> "eve", action |-> "login_success", ip |-> "10.0.0.2",
       timestamp |-> "2024-01-16T14:00:00Z"],
      [user |-> "Admin", action |-> "login_success", ip |-> "10.0.0.2",
       timestamp |-> "2024-01-16T04:45:00"],
      [user |-> "eve", action |-> "login_success", ip |-> "10.0.0.4",
       timestamp |-> "yesterday"]>>

\* the API log of the end-to-end scenario: no auth_token key at all
ScenarioApiLogs ==
    <<[endpoint |-> "/api/admin/settings", ip |-> "10.0.0.1",
       timestamp |-> "2024-01-15T02:31:00Z"]>>

BusyApiLogs ==
    <<[endpoint |-> "/api/users", auth_token |-> "tok-1", ip |-> "10.0.0.2",
       timestamp |-> "2024-01-16T14:00:01Z"],
      [endpoint |-> "/api/data/export", auth_token |-> "", ip |-> "10.0.0.2",
       timestamp |-> "2024-01-16T14:00:02Z"]>>

\* what the two log files may hold when a scan reads them
AuthLogFiles ==
    {<<>>, SubSeq(ScenarioAuthLogs, 1, 3), ScenarioAuthLogs, BusyAuthLogs}

ApiLogFiles == {<<>>, ScenarioApiLogs, BusyApiLogs}

\* a log file as the collector finds it: readable with a content, or
\* missing / not JSON
FilesFound(contents) ==
    {[readable |-> TRUE, content |-> c] : c \in contents}
    \cup {[readable |-> FALSE, content |-> <<>>]}

Init ==
    /\ input = None /\ op = "none" /\ ret = None
    /\ alert_history = <<>> /\ alerts_db = NoFile /\ scans_db = NoFile /\ clock = 0
    /\ requests = <<>>

\* startup_event: init_db()
InitDb ==
    /\ input' = None
    /\ op' = "init_db"
    /\ ret' = None
    /\ alerts_db' = init_db(alerts_db)
    /\ scans_db' = init_db(scans_db)
    /\ UNCHANGED <<alert_history, clock, requests>>

\* run_scan() from its first line to its return, when the collectors find
\* the two log files as given
run_scan(auth_file, api_file) ==
    LET auth_logs == collect_logs(auth_file.readable, auth_file.content)
        api_logs == collect_logs(api_file.readable, api_file.content)
        endpoint_scans == scan_endpoints
        auth_results == analyze_auth(auth_logs)
        api_results == analyze_api(api_logs, endpoint_scans)
        misconfig_results == analyze_misconfig(auth_logs, endpoint_scans)
        all_issues == AllIssues(auth_results, api_results, misconfig_results)
        alerts == process_issues(<<>>, all_issues, clock)
        scan_results ==
            BuildScanResults(auth_results, api_results, misconfig_results, alerts)
    IN /\ Len(scans_db.content) < MaxScans
       /\ input' = [auth_logs |-> auth_logs, api_logs |-> api_logs,
                    endpoint_scans |-> endpoint_scans]
       /\ op' = "run_scan"
       /\ alert_history' = alerts
       /\ alerts_db' = init_db(SaveAlerts(alerts_db, alerts, Len(alerts)))
       /\ scans_db' = save_scan_result(scans_db, scan_results,
                                       clock + Len(alerts))
       /\ clock' = clock + Len(alerts) + 1
       /\ ret' = Stamped(scan_results, clock + Len(alerts))
       /\ UNCHANGED requests

\* POST /scan
RunScan ==
    \E auth_file \in FilesFound(AuthLogFiles), api_file \in FilesFound(ApiLogFiles) :
        run_scan(auth_file, api_file)

\* database.db.get_latest_scan(), as GET /status calls it
GetLatestScan ==
    /\ input' = None
    /\ op' = "get_latest_scan"
    /\ ret' = get_latest_scan(scans_db)
    /\ alerts_db' = init_db(alerts_db)
    /\ scans_db' = init_db(scans_db)
    /\ UNCHANGED <<alert_history, clock, requests>>

\* GET /risk
GetRiskScore ==
    /\ input' = None
    /\ op' = "get_risk_score"
    /\ ret' = get_risk_score(scans_db)
    /\ alerts_db' = init_db(alerts_db)
    /\ scans_db' = init_db(scans_db)
    /\ UNCHANGED <<alert_history, clock, requests>>

Next == InitDb \/ RunScan \/ GetLatestScan \/ GetRiskScore

Spec == Init /\ [][Next]_vars

\* the scan that has just returned read the files of the end-to-end scenario
ScenarioScanned ==
    /\ op = "run_scan"
    /\ input.auth_logs = ScenarioAuthLogs
    /\ input.api_logs = ScenarioApiLogs
    /\ input.endpoint_scans = scan_endpoints

\* positions of the reported issue list that hold an issue of type t
Reported(t) ==
    {k \in 1..Len(ret.all_issues) : ret.all_issues[k].type = t}

\* what the scenario's expectation and the code agree on: one brute-force
\* issue with 4 attempts, one suspicious login at hour 2, one
\* missing-authentication issue and two CRITICAL exposed endpoints
ScenarioCommonPart ==
    /\ \E k \in 1..Len(ret.all_issues) :
          /\ Reported("brute_force_detected") = {k}
          /\ ret.all_issues[k].user = "eve"
          /\ ret.all_issues[k].failed_attempts = 4
    /\ \E k \in 1..Len(ret.all_issues) :
          /\ Reported("suspicious_access_time") = {k}
          /\ ret.all_issues[k].hour = 2
    /\ \E k \in 1..Len(ret.all_issues) :
          /\ Reported("missing_authentication") = {k}
          /\ ret.all_issues[k].endpoint = "/api/admin/settings"
    /\ Cardinality(Reported("exposed_endpoint")) = 2
    /\ {ret.all_issues[k].endpoint : k \in Reported("exposed_endpoint")} =
          {"/api/admin/settings", "/api/database/dump"}
    /\ \A k \in Reported("exposed_endpoint") : ret.all_issues[k].severity = "CRITICAL"
    /\ Reported("default_credentials") = {}
    /\ \A k \in Reported("public_endpoint") : ret.all_issues[k].severity = "INFO"

TypeRank(t) ==
    CASE t = "brute_force_detected" -> 1
      [] t = "suspicious_access_time" -> 2
      [] t = "multiple_ip_access" -> 3
      [] t = "missing_authentication" -> 4
      [] t = "exposed_endpoint" -> 5
      [] t = "default_credentials" -> 6
      [] t = "public_endpoint" -> 7

\* positions of the auth log read by the scan that hold a successful login
\* at a suspicious hour (the timestamps are those of AuthLogFiles)
SuspiciousRecords ==
    {i \in 1..Len(input.auth_logs) :
        /\ input.auth_logs[i].action = "login_success"
        /\ input.auth_logs[i].timestamp \in
              {"2024-01-15T02:30:00Z", "2024-01-16T03:15:00Z", "2024-01-16T04:45:00"}}

\* C8: the issue list of a scan is the concatenation of brute-force,
\* suspicious-time (in input record order), multiple-IP, missing-auth,
\* exposed-endpoint, default-credentials and public-endpoint issues, in
\* this order, each rule contributing all of its issues; process_issues
\* creates exactly one alert per issue in that order, so the k-th alert has
\* the k-th issue as details and its type and severity, and the alerts
\* saved by the scan are these alerts.
C8_IssueAndAlertOrder ==
    op = "run_scan" =>
        /\ \A k, l \in 1..Len(ret.all_issues) :
              k < l => TypeRank(ret.all_issues[k].type) <= TypeRank(ret.all_issues[l].type)
        /\ Cardinality(Reported("brute_force_detected")) =
              Len(detect_brute_force(input.auth_logs))
        /\ Cardinality(Reported("multiple_ip_access")) =
              Len(detect_multiple_ip_access(input.auth_logs))
        /\ Cardinality(Reported("missing_authentication")) =
              Len(detect_missing_auth(input.api_logs))
        /\ Cardinality(Reported("exposed_endpoint")) =
              Len(detect_exposed_admin_endpoints(input.endpoint_scans))
        /\ Cardinality(Reported("default_credentials")) =
              Len(detect_default_credentials(input.auth_logs))
        /\ Cardinality(Reported("public_endpoint")) =
              Len(detect_public_endpoints(input.endpoint_scans))
        /\ Cardinality(Reported("suspicious_access_time")) = Cardinality(SuspiciousRecords)
        /\ \A k \in Reported("suspicious_access_time") :
              \E i \in SuspiciousRecords :
                  /\ Cardinality({j \in SuspiciousRecords : j <= i}) =
                        Cardinality({j \in Reported("suspicious_access_time") : j <= k})
                  /\ ret.all_issues[k].timestamp = input.auth_logs[i].timestamp
                  /\ ret.all_issues[k].user = input.auth_logs[i].user
        /\ Len(alert_history) = Len(ret.all_issues)
        /\ ret.alert_summary.total = Len(ret.all_issues)
        /\ \A k \in 1..Len(alert_history) :
              /\ alert_history[k].details = ret.all_issues[k]
              /\ alert_history[k].type = ret.all_issues[k].type
              /\ alert_history[k].severity = ret.all_issues[k].severity
        /\ Len(alerts_db.content) >= Len(alert_history)
        /\ SubSeq(alerts_db.content,
                  Len(alerts_db.content) - Len(alert_history) + 1,
                  Len(alerts_db.content)) = alert_history

\* a scan has reported issues of all seven types, two of them
\* suspicious-time issues, and saved one alert for each
C8_Witness ==
    /\ op = "run_scan"
    /\ \A t \in KnownIssueTypes : Reported(t) # {}
    /\ Cardinality(Reported("suspicious_access_time")) = 2
    /\ Len(alert_history) = Len(ret.all_issues)
    /\ Len(alerts_db.content) > Len(alert_history)

(***************************************************************************)
(* SpecTimes: detect_suspicious_access_time on every auth log of at most   *)
(* MaxTimeLogs records whose timestamps are well-formed (with and without  *)
(* a time of day, a Z or an offset), malformed, or missing.                *)
(***************************************************************************)
TimeStamps ==
    {"2024-01-15T02:30:00Z", "2024-01-15T05:59:59", "2024-01-15T06:00:00Z",
     "2024-01-15", "2024-01-15T23:10:00+05:30", "yesterday",
     "2024-01-15T24:00:00"}

TimeRecords ==
    {[user |-> "eve", action |-> "login_success", ip |-> "10.0.0.1",
      timestamp |-> t] : t \in TimeStamps}
    \cup {[user |-> "eve", action |-> "login_failed", ip |-> "10.0.0.1",
           timestamp |-> t] : t \in {"2024-01-15T02:30:00Z", "yesterday"}}
    \cup {[user |-> "eve", action |-> "login_success", ip |-> "10.0.0.1"]}

InitTimes ==
    /\ input \in SeqsUpTo(TimeRecords, MaxTimeLogs)
    /\ op = "none" /\ ret = None /\ StoreUntouched

NextTimes == DetectSuspiciousAccessTime

SpecTimes == InitTimes /\ [][NextTimes]_vars

\* the hour datetime.fromisoformat(...).hour gives for each timestamp of
\* TimeStamps that it accepts; the others make it raise
HourOfStamp ==
    [t \in {"2024-01-15T02:30:00Z", "2024-01-15T05:59:59", "2024-01-15T06:00:00Z",
            "2024-01-15", "2024-01-15T23:10:00+05:30"} |->
        CASE t = "2024-01-15T02:30:00Z" -> 2
          [] t = "2024-01-15T05:59:59" -> 5
          [] t = "2024-01-15T06:00:00Z" -> 6
          [] t = "2024-01-15" -> 0
          [] t = "2024-01-15T23:10:00+05:30" -> 23]

\* positions of the argument log that hold a successful login whose
\* timestamp is present, parses and lies in the hours 0..5
SuspiciousLogins ==
    {i \in 1..Len(input) :
        /\ input[i].action = "login_success"
        /\ "timestamp" \in DOMAIN input[i]
        /\ input[i].timestamp \in DOMAIN HourOfStamp
        /\ HourOfStamp[input[i].timestamp] \in 0..5}

\* the k-th of them in log order
NthSuspiciousLogin(k) ==
    CHOOSE i \in SuspiciousLogins :
        Cardinality({j \in SuspiciousLogins : j < i}) = k - 1

\* C11: detect_suspicious_access_time returns, in the order of the log, one
\* WARNING suspicious_access_time issue for exactly the login_success
\* records whose timestamp parses to an hour in 0..5; a record whose
\* timestamp is malformed or missing gives no issue, does not end the call,
\* and the records after it are still examined.
C11_SuspiciousTimes ==
    op = "detect_suspicious_access_time" =>
        /\ Len(ret) = Cardinality(SuspiciousLogins)
        /\ \A k \in 1..Len(ret) :
              LET log == input[NthSuspiciousLogin(k)]
              IN /\ ret[k].type = "suspicious_access_time"
                 /\ ret[k].severity = "WARNING"
                 /\ ret[k].user = log.user
                 /\ ret[k].ip = log.ip
                 /\ ret[k].timestamp = log.timestamp
                 /\ ret[k].hour = HourOfStamp[log.timestamp]

\* a malformed and a missing timestamp are followed by a suspicious login,
\* which is reported
C11_Witness ==
    /\ op = "detect_suspicious_access_time"
    /\ Len(input) = 3
    /\ input[1].action = "login_success"
    /\ Get(input[1], "timestamp", None) = "yesterday"
    /\ input[2].action = "login_success" /\ "timestamp" \notin DOMAIN input[2]
    /\ input[3].action = "login_success"
    /\ Get(input[3], "timestamp", None) = "2024-01-15"
    /\ Len(ret) = 1 /\ ret[1].hour = 0

\* C12: no write a scan makes to the store holds raw Issue values: every
\* element of alerts.json is an Alert (which carries its issue as details)
\* and no element of scans.json carries a list of issues.
C12_IssuesNeverPersistedRaw ==
    /\ \A n \in 1..Len(alerts_db.content) :
          DOMAIN alerts_db.content[n] =
              {"id", "timestamp", "severity", "type", "description", "details"}
    /\ \A n \in 1..Len(scans_db.content) :
          \/ "all_issues" \notin DOMAIN scans_db.content[n]
          \/ scans_db.content[n].all_issues = <<>>

(***************************************************************************)
(* SpecRecs: RiskScorer.get_recommendations on every risk_data whose       *)
(* issue_counts has as keys a subset of the seven issue types and of one   *)
(* type no detector emits, each with the same count of at most             *)
(* MaxTypeCount, and on a risk_data without issue_counts.                  *)
(***************************************************************************)
RecTypes == KnownIssueTypes \cup {"sql_injection"}

RiskData ==
    {[issue_counts |-> [t \in present |-> c]] :
        present \in SUBSET RecTypes, c \in 1..MaxTypeCount}
    \cup {[score |-> 0]}

InitRecs ==
    /\ input \in RiskData
    /\ op = "none" /\ ret = None /\ StoreUntouched

GetRecommendations == Call("get_recommendations", get_recommendations(input))

NextRecs == GetRecommendations

SpecRecs == InitRecs /\ [][NextRecs]_vars

\* the issue types that are keys of the argument's issue_counts
TypesPresent == DOMAIN Get(input, "issue_counts", <<>>)

NoCriticalIssues ==
    "No critical issues detected - maintain current security posture"

ApiRemediation ==
    {"Add authentication to all sensitive API endpoints",
     "Implement API key validation"}

\* the remediation strings of an issue type, as a set
RemediationOf(t) ==
    CASE t = "brute_force_detected" ->
            {"Implement account lockout after failed login attempts",
             "Enable multi-factor authentication (MFA)"}
      [] t \in {"exposed_endpoint", "missing_authentication"} -> ApiRemediation
      [] t = "suspicious_access_time" ->
            {"Set up alerts for off-hours access", "Review access logs regularly"}
      [] t = "default_credentials" ->
            {"Change all default usernames and passwords",
             "Enforce strong password policies"}
      [] t = "multiple_ip_access" ->
            {"Implement IP whitelisting for admin accounts",
             "Monitor for unusual login patterns"}
      [] OTHER -> {}

\* what the statement of C13 and its amendment share: the strings of every
\* type present are in the result, nothing else is (but the message), and no
\* string is there twice, also when both API issue types are present
RecommendationsCommonPart ==
    /\ \A t \in TypesPresent : RemediationOf(t) \subseteq Range(ret)
    /\ Range(ret) \subseteq
          {NoCriticalIssues} \cup UNION {RemediationOf(t) : t \in TypesPresent}
    /\ Cardinality(Range(ret)) = Len(ret)

\* C13 as stated: get_recommendations returns the remediation strings of
\* every issue type present, the shared pair of exposed_endpoint and
\* missing_authentication once, and the single "no critical issues" message
\* exactly when no issue type is present.
C13_RecommendationsAsStated ==
    op = "get_recommendations" =>
        /\ RecommendationsCommonPart
        /\ ret = <<NoCriticalIssues>> <=> TypesPresent = {}

\* C13 amended: the message is returned exactly when none of the six types
\* that have remediation strings is present (public_endpoint and types no
\* rule knows have none).
C13_RecommendationsAmended ==
    op = "get_recommendations" =>
        /\ RecommendationsCommonPart
        /\ ret = <<NoCriticalIssues>>
              <=> \A t \in TypesPresent : RemediationOf(t) = {}
        /\ NoCriticalIssues \in Range(ret) => ret = <<NoCriticalIssues>>

\* both API issue types and public_endpoint are present: the shared pair
\* is returned once
C13_Witness ==
    /\ op = "get_recommendations"
    /\ TypesPresent =
          {"exposed_endpoint", "missing_authentication", "public_endpoint"}
    /\ Len(ret) = 2

\* C14: while no scan has been saved get_latest_scan returns None and the
\* risk query answers risk_level UNKNOWN with score 0; once scans have been
\* saved, the scan that completed last is the last one saved, and the risk
\* query returns the score, level, issue total and time of that scan.
C14_LatestRisk ==
    LET scans == scans_db.content
    IN /\ op = "run_scan" => scans # <<>> /\ scans[Len(scans)] = ret
       /\ op = "get_latest_scan" /\ scans = <<>> => ret = None
       /\ op = "get_latest_scan" /\ scans # <<>> => ret = scans[Len(scans)]
       /\ op = "get_risk_score" /\ scans = <<>> =>
             ret.risk_level = "UNKNOWN" /\ ret.risk_score = 0
       /\ op = "get_risk_score" /\ scans # <<>> =>
             /\ ret.risk_score = scans[Len(scans)].risk_score
             /\ ret.risk_level = scans[Len(scans)].risk_level
             /\ ret.total_issues = scans[Len(scans)].total_issues
             /\ ret.last_scan = scans[Len(scans)].timestamp

\* two scans with different scores were saved and the risk query answers
\* with the second one's
C14_Witness ==
    /\ op = "get_risk_score"
    /\ Len(scans_db.content) = 2
    /\ scans_db.content[1].risk_score # scans_db.content[2].risk_score
    /\ ret.risk_score = scans_db.content[2].risk_score

(***************************************************************************)
(* SpecSummary: AlertManager.get_alert_summary on every list of at most    *)
(* MaxSummaryAlerts alerts whose severity is one of the three levels,      *)
(* another string, or absent; and run_scan, which calls it on the alerts   *)
(* of the scan.                                                            *)
(***************************************************************************)
SummarySeverities == {"CRITICAL", "WARNING", "INFO", "HIGH", "total"}

SummaryAlerts ==
    {[id |-> 1, type |-> "exposed_endpoint", severity |-> s] : s \in SummarySeverities}
    \cup {[id |-> 1, type |-> "exposed_endpoint"]}

InitSummary ==
    /\ input \in SeqsUpTo(SummaryAlerts, MaxSummaryAlerts)
    /\ op = "none" /\ ret = None /\ StoreUntouched

GetAlertSummary == Call("get_alert_summary", get_alert_summary(input))

NextSummary == GetAlertSummary \/ RunScan

SpecSummary == InitSummary /\ [][NextSummary]_vars

\* number of alerts of the argument list that count for this severity
AlertsOfSeverity(sev) ==
    Cardinality({i \in 1..Len(input) : Get(input[i], "severity", "INFO") = sev})

StoreAlerts ==
    {[id |-> 99, timestamp |-> "2024-01-17T09:00:00", severity |-> "INFO",
      type |-> "public_endpoint",
      description |-> "Endpoint '/api/status' is publicly accessible",
      details |-> [type |-> "public_endpoint", endpoint |-> "/api/status"]]}

\* a scan result saved directly
StoreScans ==
    {[scan_completed |-> TRUE, risk_score |-> 0, risk_level |-> "LOW",
      total_issues |-> 0]}

SaveAlert ==
    \E alert \in StoreAlerts :
        /\ Len(alerts_db.content) < MaxStoredAlerts
        /\ input' = alert
        /\ op' = "save_alert"
        /\ ret' = None
        /\ alerts_db' = save_alert(alerts_db, alert)
        /\ scans_db' = init_db(scans_db)
        /\ UNCHANGED <<alert_history, clock, requests>>

SaveScanResult ==
    \E scan_data \in StoreScans :
        /\ Len(scans_db.content) < MaxScans
        /\ input' = scan_data
        /\ op' = "save_scan_result"
        /\ ret' = None
        /\ alerts_db' = init_db(alerts_db)
        /\ scans_db' = save_scan_result(scans_db, scan_data, clock)
        /\ clock' = clock + 1
        /\ UNCHANGED <<alert_history, requests>>

GetAllAlerts ==
    /\ input' = None
    /\ op' = "get_all_alerts"
    /\ ret' = get_all_alerts(alerts_db)
    /\ alerts_db' = init_db(alerts_db)
    /\ scans_db' = init_db(scans_db)
    /\ UNCHANGED <<alert_history, clock, requests>>

\* POST /scan while the API log is missing and the auth log is missing or
\* holds the records of the end-to-end scenario
RunScanOnAuthLog ==
    \E auth_file \in FilesFound({ScenarioAuthLogs}), api_file \in FilesFound({}) :
        run_scan(auth_file, api_file)

NextStore ==
    \/ InitDb
    \/ SaveAlert
    \/ SaveScanResult
    \/ GetAllAlerts
    \/ GetLatestScan
    \/ RunScanOnAuthLog

SpecStore == Init /\ [][NextStore]_vars

\* list s is the beginning of list t
IsPrefix(s, t) == Len(s) <= Len(t) /\ SubSeq(t, 1, Len(s)) = s

\* C16: operations that do not interleave only append to the two stores:
\* the old content of each store is a prefix of the new one; init_db leaves
\* a store that exists as it is; save_alert appends its alert at the end;
\* a scan appends the list of its alerts, so that after k scans the alerts
\* store holds the k lists one after the other in scan order.
C16_AppendOnly ==
    [][/\ IsPrefix(alerts_db.content, alerts_db'.content)
       /\ IsPrefix(scans_db.content, scans_db'.content)
       /\ op' = "init_db" /\ alerts_db.exists => alerts_db' = alerts_db
       /\ op' = "init_db" /\ scans_db.exists => scans_db' = scans_db
       /\ op' = "save_alert" =>
             alerts_db'.content = Append(alerts_db.content, input')
       /\ op' = "save_scan_result" =>
             /\ Len(scans_db'.content) = Len(scans_db.content) + 1
             /\ alerts_db'.content = alerts_db.content
       /\ op' = "run_scan" =>
             /\ alerts_db'.content = alerts_db.content \o alert_history'
             /\ scans_db'.content = Append(scans_db.content, ret')
       /\ op' \in {"get_all_alerts", "get_latest_scan"} =>
             /\ alerts_db'.content = alerts_db.content
             /\ scans_db'.content = scans_db.content]_<<op, alerts_db, scans_db>>

\* two scans were saved, then an alert was saved directly: the store holds
\* the first scan's alerts, the second scan's alerts and that alert
C16_Witness ==
    /\ op = "save_alert"
    /\ Len(scans_db.content) = 2
    /\ scans_db.content[1].total_issues > 0
    /\ scans_db.content[2].total_issues > 0
    /\ Len(alerts_db.content) =
          scans_db.content[1].total_issues + scans_db.content[2].total_issues + 1
    /\ alerts_db.content[Len(alerts_db.content)] = input
    /\ alerts_db.content[1].id = 1

(***************************************************************************)
(* SpecRace: two /scan requests served side by side by processes that      *)
(* share the two JSON files, after start-up has created the files and      *)
(* while the two log files are missing or hold no records.  A              *)
(* request is a sequence of steps, and the steps of the two requests       *)
(* interleave in any order:                                                *)
(*   StartScan       collect the logs, run the detectors and the scorer    *)
(*   SaveAlertRead   next iteration of the loop of process_issues up to    *)
(*                   and including json.load in save_alert                 *)
(*   SaveAlertWrite  the rest of save_alert and of the iteration           *)
(*   SaveScanRead    the rest of run_scan up to and including json.load    *)
(*                   in save_scan_result                                   *)
(*   SaveScanWrite   the rest of save_scan_result and of run_scan          *)
(* The files exist from start-up on, so the init_db calls change nothing.  *)
(* Each request has an AlertManager of its own, whose alert_history stays  *)
(* empty until its loop is over.                                           *)
(***************************************************************************)
Requests == {1, 2}

IdleRequest ==
    [pc |-> "idle",
     logs |-> [auth_logs |-> <<>>, api_logs |-> <<>>],
     all_issues |-> <<>>,   \* all_issues of run_scan
     alerts |-> <<>>,       \* the list `alerts` of process_issues
     stored |-> <<>>,       \* the list `alerts` of save_alert
     stamp |-> 0,           \* the clock reading of save_scan_result
     scans |-> <<>>]        \* the list `scans` of save_scan_result

InitRace ==
    /\ input = None /\ op = "none" /\ ret = None
    /\ alert_history = <<>> /\ clock = 0
    /\ alerts_db = init_db(NoFile) /\ scans_db = init_db(NoFile)
    /\ requests = [r \in Requests |-> IdleRequest]

\* the file as the request read it
AsRead(content) == [exists |-> TRUE, content |-> content]

\* scan_results of the request, from its logs and its alerts
RequestScanResults(request) ==
    BuildScanResults(analyze_auth(request.logs.auth_logs),
                     analyze_api(request.logs.api_logs, scan_endpoints),
                     analyze_misconfig(request.logs.auth_logs, scan_endpoints),
                     request.alerts)

StartScan(r) ==
    \E auth_file \in FilesFound({<<>>}), api_file \in FilesFound({<<>>}) :
        LET auth_logs == collect_logs(auth_file.readable, auth_file.content)
            api_logs == collect_logs(api_file.readable, api_file.content)
            all_issues ==
                AllIssues(analyze_auth(auth_logs),
                          analyze_api(api_logs, scan_endpoints),
                          analyze_misconfig(auth_logs, scan_endpoints))
        IN /\ requests[r].pc = "idle"
           /\ requests' = [requests EXCEPT
                  ![r].pc = IF all_issues = <<>> THEN "save_scan_read"
                            ELSE "save_alert_read",
                  ![r].logs = [auth_logs |-> auth_logs, api_logs |-> api_logs],
                  ![r].all_issues = all_issues]
           /\ UNCHANGED <<input, op, ret, alert_history, alerts_db, scans_db, clock>>

SaveAlertRead(r) ==
    LET request == requests[r]
        issue == request.all_issues[Len(request.alerts) + 1]
    IN /\ request.pc = "save_alert_read"
       /\ requests' = [requests EXCEPT
              ![r].pc = "save_alert_write",
              ![r].alerts = Append(@, create_alert(<<>>, issue, clock)),
              ![r].stored = init_db(alerts_db).content]
       /\ clock' = clock + 1
       /\ alerts_db' = init_db(alerts_db)
       /\ scans_db' = init_db(scans_db)
       /\ UNCHANGED <<input, op, ret, alert_history>>

SaveAlertWrite(r) ==
    LET request == requests[r]
        alert == request.alerts[Len(request.alerts)]
    IN /\ request.pc = "save_alert_write"
       /\ alerts_db' = save_alert(AsRead(request.stored), alert)
       /\ requests' = [requests EXCEPT
              ![r].pc = IF Len(request.alerts) < Len(request.all_issues)
                        THEN "save_alert_read" ELSE "save_scan_read"]
       /\ UNCHANGED <<input, op, ret, alert_history, scans_db, clock>>

SaveScanRead(r) ==
    /\ requests[r].pc = "save_scan_read"
    /\ requests' = [requests EXCEPT
           ![r].pc = "save_scan_write",
           ![r].stamp = clock,
           ![r].scans = init_db(scans_db).content]
    /\ clock' = clock + 1
    /\ alerts_db' = init_db(alerts_db)
    /\ scans_db' = init_db(scans_db)
    /\ UNCHANGED <<input, op, ret, alert_history>>

SaveScanWrite(r) ==
    LET request == requests[r]
        scan_results == RequestScanResults(request)
    IN /\ request.pc = "save_scan_write"
       /\ scans_db' = save_scan_result(AsRead(request.scans), scan_results,
                                       request.stamp)
       /\ requests' = [requests EXCEPT ![r].pc = "done"]
       /\ input' = request.logs
       /\ op' = "run_scan"
       /\ ret' = Stamped(scan_results, request.stamp)
       /\ UNCHANGED <<alert_history, alerts_db, clock>>

NextRace ==
    \E r \in Requests :
        \/ StartScan(r)
        \/ SaveAlertRead(r)
        \/ SaveAlertWrite(r)
        \/ SaveScanRead(r)
        \/ SaveScanWrite(r)

SpecRace == InitRace /\ [][NextRace]_vars

\* the alerts whose save_alert call the request has completed
Completed(r) ==
    LET request == requests[r]
    IN IF request.pc = "save_alert_write"
       THEN SubSeq(request.alerts, 1, Len(request.alerts) - 1)
       ELSE request.alerts

\* the positions of alerts.json that hold an alert of the request
StoredOf(r) ==
    {i \in 1..Len(alerts_db.content) :
        \E k \in 1..Len(requests[r].alerts) :
            requests[r].alerts[k] = alerts_db.content[i]}

\* C17: save_alert reads the whole of alerts.json and writes the whole of it
\* back in a later step, with nothing to keep another request out in
\* between.  Whatever the interleaving, the file holds only alerts that a
\* request created, none twice, each request's alerts in the order of their
\* creation, and not more alerts than save_alert calls have completed; a
\* request that runs while the other has not started loses nothing.  When
\* the steps do interleave the file can lack an alert whose save_alert has
\* completed (C17_Witness).
C17_ReadThenWrite ==
    LET store == alerts_db.content
    IN /\ \A i \in 1..Len(store) : \E r \in Requests : i \in StoredOf(r)
       /\ \A i, j \in 1..Len(store) : i # j => store[i] # store[j]
       /\ \A r \in Requests : \A i, j \in StoredOf(r) :
             i < j =>
                \E k, l \in 1..Len(requests[r].alerts) :
                    /\ k < l
                    /\ requests[r].alerts[k] = store[i]
                    /\ requests[r].alerts[l] = store[j]
       /\ Len(store) <= Len(Completed(1)) + Len(Completed(2))
       /\ \A r \in Requests :
             (\A q \in Requests \ {r} : requests[q].pc = "idle")
                => store = Completed(r)

\* both scans have run to their end and alerts.json lacks an alert whose
\* save_alert completed: it holds fewer alerts than the scans found issues
C17_Witness ==
    /\ \A r \in Requests : requests[r].pc = "done"
    /\ \E r \in Requests : \E k \in 1..Len(requests[r].alerts) :
          \A i \in 1..Len(alerts_db.content) :
              alerts_db.content[i] # requests[r].alerts[k]
    /\ Len(alerts_db.content)
          < Len(requests[1].all_issues) + Len(requests[2].all_issues)

\* the endpoints about which the reported issues of type t are, in order
EndpointsReported(t) ==
    LET about == SelectSeq(ret.all_issues, LAMBDA issue : issue.type = t)
    IN [k \in 1..Len(about) |-> about[k].endpoint]

====
